---- MODULE Spec2Model ----
(***************************************************************************)
(* Query interpretation and compilation pipeline of the clinical-trials    *)
(* search backend: llm_service.extract_entities (reply parsing,            *)
(* normalisation, fallbacks) and ElasticsearchService.build_query.         *)
(*                                                                         *)
(* Texts are sequences of tokens.  A query is a sequence of characters.    *)
(* An extraction reply is a sequence of lexical tokens:                    *)
(*   "{" "}"  braces             "m"   a run of scalar object members      *)
(*   "~~~"    a code fence       "json" the language tag                   *)
(*   "w"      a prose word       "v"   a JSON value that is not an object  *)
(*   " "      whitespace                                                   *)
(* Confidence values are held in tenths (8 is 0.8).                        *)
(***************************************************************************)
EXTENDS Integers, Sequences, FiniteSets, TLC

\* ------------------------------------------------------------------ bounds
MaxQueryLen == 1
MaxKeys == 2

\* --------------------------------------------------------------- registry
VALID_PHASES == {"NA", "PHASE1", "PHASE1/PHASE2", "PHASE2", "PHASE2/PHASE3",
                 "PHASE3", "PHASE4", "Phase NA"}

VALID_STATUSES == {"ACTIVE_NOT_RECRUITING", "COMPLETED", "NOT_YET_RECRUITING",
                   "RECRUITING", "SUSPENDED", "TERMINATED", "UNKNOWN",
                   "WITHDRAWN"}

VALID_AGE_GROUPS == {"adult", "older-adults", "child", "adolescent", "infant",
                     "toddler"}

\* ---------------------------------------------------------- text helpers
\* str.strip(): drop leading and trailing whitespace
RECURSIVE LStrip(_)
LStrip(s) == IF s # <<>> /\ Head(s) = " " THEN LStrip(Tail(s)) ELSE s

RECURSIVE RStrip(_)
RStrip(s) ==
  IF s # <<>> /\ s[Len(s)] = " " THEN RStrip(SubSeq(s, 1, Len(s) - 1)) ELSE s

\* (variant) no stripping at all
Strip_Identity(s) == s

Strip(s) == RStrip(LStrip(s))

\* position of the first non-whitespace token at or after i (Len(s)+1 if none)
RECURSIVE SkipWs(_, _)
SkipWs(s, i) == IF i <= Len(s) /\ s[i] = " " THEN SkipWs(s, i + 1) ELSE i

RECURSIVE DropWs(_)
DropWs(s) ==
  IF s = <<>> THEN <<>>
  ELSE IF Head(s) = " " THEN DropWs(Tail(s))
  ELSE <<Head(s)>> \o DropWs(Tail(s))

\* ------------------------------------------------------------- json.loads
\* s (whitespace removed) from position i at brace depth d is the rest of one
\* well-formed object: only braces and members, the depth returns to 0 at the
\* last token and not before
RECURSIVE ObjectTail(_, _, _)
ObjectTail(s, i, d) ==
  IF i > Len(s) THEN d = 0
  ELSE IF d = 0 THEN FALSE
  ELSE IF s[i] = "{" THEN ObjectTail(s, i + 1, d + 1)
  ELSE IF s[i] = "}" THEN ObjectTail(s, i + 1, d - 1)
  ELSE IF s[i] = "m" THEN ObjectTail(s, i + 1, d)
  ELSE FALSE

IsJsonObject(s) ==
  LET t == DropWs(s) IN Len(t) >= 2 /\ t[1] = "{" /\ ObjectTail(t, 2, 1)

\* json.loads: "object" (a dict), "value" (any other JSON value) or "error"
\* (json.JSONDecodeError)
JsonLoads(s) ==
  IF IsJsonObject(s) THEN "object"
  ELSE IF DropWs(s) = <<"v">> THEN "value"
  ELSE "error"

\* ------------------------------------------- the two regular expressions
\* the fence expression (fence, optional json tag, optional whitespace, then
\* the group: a brace, lazily anything, a brace; optional whitespace, fence)
\* anchored at fence position i: the position of the opening brace of the
\* group, or 0
FenceOpen(s, i) ==
  IF i > Len(s) \/ s[i] # "~~~" THEN 0
  ELSE LET j == IF i + 1 <= Len(s) /\ s[i + 1] = "json" THEN i + 2 ELSE i + 1
           a == SkipWs(s, j)
       IN IF a <= Len(s) /\ s[a] = "{" THEN a ELSE 0

\* b closes group 1: a "}" followed by optional whitespace and a fence
FenceClose(s, b) ==
  /\ b <= Len(s) /\ s[b] = "}"
  /\ LET c == SkipWs(s, b + 1) IN c <= Len(s) /\ s[c] = "~~~"

\* leftmost fence position at which the fence expression matches, or 0
FenceStarts(s) ==
  {i \in 1..Len(s) :
     /\ FenceOpen(s, i) # 0
     /\ \E b \in (FenceOpen(s, i) + 1)..Len(s) : FenceClose(s, b)}

Min(S) == CHOOSE x \in S : \A y \in S : x <= y

\* group 1 of the fence expression (lazy: the nearest closing brace), or <<>>
FenceGroup(s) ==
  IF FenceStarts(s) = {} THEN <<>>
  ELSE LET i == Min(FenceStarts(s))
           a == FenceOpen(s, i)
           b == Min({k \in (a + 1)..Len(s) : FenceClose(s, k)})
       IN SubSeq(s, a, b)

\* the brace expression (a brace, non-brace text, any number of inner
\* brace pairs each holding and followed by non-brace text, a brace) anchored
\* at an opening brace: scanning from i at depth d (1 or 2), the position of
\* the closing brace, or 0
RECURSIVE BraceEnd(_, _, _)
BraceEnd(s, i, d) ==
  IF i > Len(s) THEN 0
  ELSE IF s[i] = "{" THEN (IF d = 1 THEN BraceEnd(s, i + 1, 2) ELSE 0)
  ELSE IF s[i] = "}" THEN (IF d = 1 THEN i ELSE BraceEnd(s, i + 1, 1))
  ELSE BraceEnd(s, i + 1, d)

BraceStarts(s) ==
  {i \in 1..Len(s) : s[i] = "{" /\ BraceEnd(s, i + 1, 1) # 0}

\* group 0 of the brace expression at its leftmost match, or <<>>
BraceSpan(s) ==
  IF BraceStarts(s) = {} THEN <<>>
  ELSE LET i == Min(BraceStarts(s)) IN SubSeq(s, i, BraceEnd(s, i + 1, 1))

\* _parse_json_response: kind is what json.loads returned ("error" when the
\* function raises JSONDecodeError), stage the attempt that decided (0: none
\* applied), span the text handed to that json.loads
ParseJsonResponse(text) ==
  LET t == Strip(text) IN
  IF JsonLoads(t) # "error" THEN [kind |-> JsonLoads(t), stage |-> 1, span |-> t]
  ELSE IF FenceGroup(t) # <<>>
    THEN [kind |-> JsonLoads(FenceGroup(t)), stage |-> 2, span |-> FenceGroup(t)]
  ELSE IF BraceSpan(t) # <<>>
    THEN [kind |-> JsonLoads(BraceSpan(t)), stage |-> 3, span |-> BraceSpan(t)]
  ELSE [kind |-> "error", stage |-> 0, span |-> <<>>]

\* ------------------------------------------------- JSON values of a reply
\* A reply object is a record over Fields.  Scalar fields hold a string, or
\* Absent (the key is missing), Null (JSON null), or one of the non-string
\* values "<0>" (the number 0), "<7>" (a non-zero number), "<list>" (a
\* non-empty array).  Numeric fields hold [t, v] with t the JSON type: "num"
\* a number v, "numstr" a string spelling the number v, "badstr" any other
\* string, "inf" a number literal beyond the float range (1e999, which
\* json.loads reads as infinity).  location holds [t, city, state, country, extra]: t is "dict" for
\* an object (extra: it carries a non-null key other than the three),
\* "LocationFilter" for the pydantic model.
Absent == "<absent>"
Null == "<null>"
NonStrings == {"<0>", "<7>", "<list>"}

Num(t, v) == [t |-> t, v |-> v]
AbsentNum == Num("absent", 0)
NullNum == Num("null", 0)

Loc(t, city, state, country, extra) ==
  [t |-> t, city |-> city, state |-> state, country |-> country, extra |-> extra]
AbsentLoc == Loc("absent", Absent, Absent, Absent, FALSE)
NullLoc == Loc("null", Absent, Absent, Absent, FALSE)
EmptyDict == Loc("dict", Absent, Absent, Absent, FALSE)

Fields == {"phase", "condition", "status", "location", "sponsor", "keyword",
           "age_group", "enrollment_min", "enrollment_max", "confidence",
           "clarification"}

StrFields == {"phase", "condition", "status", "sponsor", "keyword",
              "age_group", "clarification"}

NumFields == {"enrollment_min", "enrollment_max", "confidence"}

\* the reply object {} : every key missing
EmptyObj ==
  [f \in Fields |->
     IF f = "location" THEN AbsentLoc
     ELSE IF f \in NumFields THEN AbsentNum
     ELSE Absent]

SubFields == {"city", "state", "country"}

\* the values a location object may carry under each of its keys
SubVals(k) ==
  CASE k = "city" -> {Null, "", "Boston", "<7>"}
    [] k = "state" -> {Null, "MA"}
    [] k = "country" -> {Null, "", "US"}

\* the values a reply may carry under each key (a location object counts
\* its first key with the location key itself)
FieldVals(f) ==
  CASE f = "phase" -> {Null, "PHASE2", "PHASE9", "", "<0>", "<7>", "<list>"}
    [] f = "status" -> {"RECRUITING", "open", ""}
    [] f = "age_group" -> {"adult", "senior", ""}
    [] f = "condition" -> {"Asthma", "<7>"}
    [] f = "sponsor" -> {"Pfizer"}
    [] f = "keyword" -> {"BRCA1"}
    [] f = "clarification" -> {"Did you mean asthma?"}
    [] f = "confidence" -> {NullNum, Num("num", -5), Num("num", 0),
                            Num("num", 7), Num("num", 10), Num("num", 15),
                            Num("numstr", 5), Num("badstr", 0)}
    [] f = "enrollment_min" -> {NullNum, Num("num", 50), Num("num", 0),
                                Num("num", -5), Num("numstr", 50),
                                Num("badstr", 0), Num("list", 0),
                                Num("inf", 0)}
    [] f = "enrollment_max" -> {Num("num", 200), Num("num", 10),
                                Num("badstr", 0)}
    [] f = "location" -> {NullLoc, Loc("str", Absent, Absent, Absent, FALSE),
                          EmptyDict}
                         \cup UNION {{[EmptyDict EXCEPT ![k] = v] :
                                         v \in SubVals(k)} : k \in SubFields}
                         \cup {[EmptyDict EXCEPT !.extra = TRUE]}

\* the reply objects that carry one key more than o: a missing top-level key,
\* or a missing key of its location object
Grow(o) ==
  (UNION {{[o EXCEPT ![f] = v] : v \in FieldVals(f)} :
            f \in {g \in Fields : o[g] = EmptyObj[g]}})
  \cup (IF o["location"].t # "dict" THEN {}
        ELSE (UNION {{[o EXCEPT !["location"][k] = v] : v \in SubVals(k)} :
                       k \in {j \in SubFields : o["location"][j] = Absent}})
             \cup (IF o["location"].extra THEN {}
                   ELSE {[o EXCEPT !["location"]["extra"] = TRUE]}))

\* the reply objects with at most k keys (further location keys included)
RECURSIVE ObjsUpTo(_)
ObjsUpTo(k) ==
  IF k = 0 THEN {EmptyObj}
  ELSE LET P == ObjsUpTo(k - 1) IN P \cup UNION {Grow(o) : o \in P}

Objs == ObjsUpTo(MaxKeys)

\* ------------------------------------------------ _validate_and_normalize
\* Python truthiness of a scalar value
Truthy(v) == v \notin {Absent, Null, "", "<0>"}

\* "x not in <frozenset>" hashes x: a list is unhashable (TypeError)
Unhashable(v) == v = "<list>"

\* one enum field: a truthy value outside the valid set is replaced by None
NormEnum(v, valid) == IF Truthy(v) /\ v \notin valid THEN Null ELSE v

EnumRaises(v) == Truthy(v) /\ Unhashable(v)

Max2(a, b) == IF a >= b THEN a ELSE b
Min2(a, b) == IF a <= b THEN a ELSE b

\* (variant) the upper bound is not applied
Clamp_NoUpper(c) == Max2(0, c)

\* max(0.0, min(1.0, float(c))), in tenths
Clamp(c) == Max2(0, Min2(10, c))

\* float(x) raises TypeError on None, ValueError on a non-numeric string
FloatRaises(c) == c.t \in {"null", "badstr", "list"}

NormConfidence(c) ==
  IF c.t = "absent" THEN c ELSE Num("num", Clamp(c.v))

\* LocationFilter(**loc): the three declared fields, None by default; other
\* keys are ignored; a non-string value fails validation
LocationFilterOf(kept) ==
  Loc("LocationFilter",
      IF kept.city = Absent THEN Null ELSE kept.city,
      IF kept.state = Absent THEN Null ELSE kept.state,
      IF kept.country = Absent THEN Null ELSE kept.country,
      FALSE)

\* {k: v for k, v in loc.items() if v is not None}
NonNullItems(loc) ==
  Loc("dict",
      IF loc.city = Null THEN Absent ELSE loc.city,
      IF loc.state = Null THEN Absent ELSE loc.state,
      IF loc.country = Null THEN Absent ELSE loc.country,
      loc.extra)

\* (variant) the location branch is taken for any value that is not None,
\* so a LocationFilter or a string is asked for .items()
LocationRaises_NotNone(loc) ==
  \/ loc.t \in {"LocationFilter", "str"}
  \/ /\ loc.t = "dict"
     /\ \E k \in SubFields : NonNullItems(loc)[k] \in NonStrings

LocationRaises(loc) ==
  /\ loc.t = "dict"
  /\ \E k \in SubFields : NonNullItems(loc)[k] \in NonStrings

NormLocation(loc) ==
  IF loc.t # "dict" THEN loc
  ELSE IF NonNullItems(loc) # EmptyDict THEN LocationFilterOf(NonNullItems(loc))
  ELSE NullLoc

\* int(val) inside try/except (TypeError, ValueError)
NormEnrollment(e) ==
  IF e.t \in {"absent", "null"} THEN e
  ELSE IF e.t \in {"num", "numstr"} THEN Num("num", e.v)
  ELSE NullNum

\* int(val) raises outside (TypeError, ValueError): int(float("inf")) is an
\* OverflowError
IntRaises(e) == e.t = "inf"

\* the exception _validate_and_normalize raises on data, or "none"
NormalizeExc(data) ==
  IF EnumRaises(data["phase"]) \/ EnumRaises(data["status"])
       \/ EnumRaises(data["age_group"]) THEN "TypeError"
  ELSE IF FloatRaises(data["confidence"])
    THEN (IF data["confidence"].t = "badstr" THEN "ValueError" ELSE "TypeError")
  ELSE IF LocationRaises(data["location"]) THEN "ValidationError"
  ELSE IF IntRaises(data["enrollment_min"]) \/ IntRaises(data["enrollment_max"])
    THEN "OverflowError"
  ELSE "none"

\* the dict _validate_and_normalize returns when it raises nothing
ValidateAndNormalize(data) ==
  [data EXCEPT
     !["phase"] = NormEnum(@, VALID_PHASES),
     !["status"] = NormEnum(@, VALID_STATUSES),
     !["age_group"] = NormEnum(@, VALID_AGE_GROUPS),
     !["confidence"] = NormConfidence(@),
     !["location"] = NormLocation(@),
     !["enrollment_min"] = NormEnrollment(@),
     !["enrollment_max"] = NormEnrollment(@)]

\* ------------------------------------------------------ ExtractedEntities
DefaultConfidence == 8

\* Optional[str]: None when missing
StrField(v) == IF v = Absent THEN Null ELSE v

\* (variant) the enrollment bounds have no ge=0 constraint
ConstructRaises_NoGe(data) ==
  \/ \E f \in StrFields : data[f] \in NonStrings
  \/ data["location"].t \notin {"absent", "null", "LocationFilter"}
  \/ \E f \in {"enrollment_min", "enrollment_max"} :
       data[f].t \notin {"absent", "null", "num"}
  \/ data["confidence"].t \notin {"absent", "num"}
  \/ data["confidence"].t = "num"
       /\ (data["confidence"].v < 0 \/ data["confidence"].v > 10)

\* ExtractedEntities(**data) fails validation (pydantic ValidationError)
ConstructRaises(data) ==
  \/ \E f \in StrFields : data[f] \in NonStrings
  \/ data["location"].t \notin {"absent", "null", "LocationFilter"}
  \/ \E f \in {"enrollment_min", "enrollment_max"} :
       \/ data[f].t \notin {"absent", "null", "num"}
       \/ data[f].t = "num" /\ data[f].v < 0
  \/ data["confidence"].t \notin {"absent", "num"}
  \/ data["confidence"].t = "num"
       /\ (data["confidence"].v < 0 \/ data["confidence"].v > 10)

\* the model ExtractedEntities(**data) builds: None is Null, confidence a
\* number of tenths, an enrollment bound Num("num", n) or NullNum
ExtractedEntities(data) ==
  [f \in Fields |->
     IF f \in StrFields THEN StrField(data[f])
     ELSE IF f = "location"
       THEN (IF data[f].t = "LocationFilter" THEN data[f] ELSE NullLoc)
     ELSE IF f = "confidence"
       THEN (IF data[f].t = "absent" THEN DefaultConfidence ELSE data[f].v)
     ELSE (IF data[f].t = "num" THEN data[f] ELSE NullNum)]

\* ExtractedEntities(confidence=c, clarification=text)
Fallback(c, text) ==
  ExtractedEntities([EmptyObj EXCEPT !["confidence"] = Num("num", c),
                                     !["clarification"] = text])

\* ------------------------------------------- ElasticsearchService.build_query
\* A clause is a record of one shape: clause is the query type, path the
\* nested path, field and value the field queried and its argument, type the
\* match type or the inner query type, fields the multi_match field list,
\* inner the term list of a nested bool, gte and lte the range bounds
\* (NullNum: the key is missing).
NoClause ==
  [clause |-> "", path |-> "", field |-> "", value |-> "", type |-> "",
   fields |-> <<>>, fuzziness |-> "", inner |-> <<>>, gte |-> NullNum,
   lte |-> NullNum]

TermClause(field, value) ==
  [NoClause EXCEPT !.clause = "term", !.field = field, !.value = value]

ConditionClause(text) ==
  [NoClause EXCEPT !.clause = "multi_match", !.value = text,
     !.fields = <<"brief_title^3", "official_title^2",
                  "brief_summaries_description">>,
     !.type = "best_fields", !.fuzziness = "AUTO"]

KeywordClause(text) ==
  [NoClause EXCEPT !.clause = "multi_match", !.value = text,
     !.fields = <<"brief_title^2", "official_title^2",
                  "brief_summaries_description", "detailed_description">>,
     !.type = "phrase_prefix"]

\* Python truthiness of an Optional[str] model field
Set(v) == v \notin {Null, ""}

\* (variant) a sub-field counts as soon as it is not None
LocationFilters_NotNone(loc) ==
  (IF loc.country # Null THEN <<<<"facilities.country", loc.country>>>>
   ELSE <<>>)
  \o (IF loc.state # Null THEN <<<<"facilities.state", loc.state>>>> ELSE <<>>)
  \o (IF loc.city # Null THEN <<<<"facilities.city", loc.city>>>> ELSE <<>>)

\* location_filters: one pair <<field, value>> per truthy sub-field
LocationFilters(loc) ==
  (IF Set(loc.country) THEN <<<<"facilities.country", loc.country>>>> ELSE <<>>)
  \o (IF Set(loc.state) THEN <<<<"facilities.state", loc.state>>>> ELSE <<>>)
  \o (IF Set(loc.city) THEN <<<<"facilities.city", loc.city>>>> ELSE <<>>)

LocationClause(loc) ==
  [NoClause EXCEPT !.clause = "nested", !.path = "facilities", !.type = "bool",
     !.inner = LocationFilters(loc)]

SponsorClause(name) ==
  [NoClause EXCEPT !.clause = "nested", !.path = "sponsors", !.type = "match",
     !.field = "sponsors.name", !.value = name]

AgeClause(age) ==
  [NoClause EXCEPT !.clause = "nested", !.path = "age", !.type = "term",
     !.field = "age.age_category", !.value = age]

\* (variant) the bounds are put in ascending order
RangeClause_Sorted(lo, hi) ==
  IF lo # NullNum /\ hi # NullNum /\ lo.v > hi.v
  THEN [NoClause EXCEPT !.clause = "range", !.field = "enrollment", !.gte = hi,
          !.lte = lo]
  ELSE [NoClause EXCEPT !.clause = "range", !.field = "enrollment", !.gte = lo,
          !.lte = hi]

RangeClause(lo, hi) ==
  [NoClause EXCEPT !.clause = "range", !.field = "enrollment", !.gte = lo,
     !.lte = hi]

\* (variant) the keyword clause is appended before the condition clause
MustClauses_KeywordFirst(e) ==
  (IF Set(e["keyword"]) THEN <<KeywordClause(e["keyword"])>> ELSE <<>>)
  \o (IF Set(e["condition"]) THEN <<ConditionClause(e["condition"])>>
      ELSE <<>>)

MustClauses(e) ==
  (IF Set(e["condition"]) THEN <<ConditionClause(e["condition"])>> ELSE <<>>)
  \o (IF Set(e["keyword"]) THEN <<KeywordClause(e["keyword"])>> ELSE <<>>)

FilterClauses(e) ==
  (IF Set(e["phase"]) THEN <<TermClause("phase", e["phase"])>> ELSE <<>>)
  \o (IF Set(e["status"])
      THEN <<TermClause("overall_status", e["status"])>> ELSE <<>>)
  \o (IF e["location"].t = "LocationFilter"
           /\ LocationFilters(e["location"]) # <<>>
      THEN <<LocationClause(e["location"])>> ELSE <<>>)
  \o (IF Set(e["sponsor"]) THEN <<SponsorClause(e["sponsor"])>> ELSE <<>>)
  \o (IF Set(e["age_group"]) THEN <<AgeClause(e["age_group"])>> ELSE <<>>)
  \o (IF e["enrollment_min"] # NullNum \/ e["enrollment_max"] # NullNum
      THEN <<RangeClause(e["enrollment_min"], e["enrollment_max"])>>
      ELSE <<>>)

\* (variant) the bool wrapper is emitted even when both lists are empty
Assemble_NoCollapse(must, filter) ==
  [kind |-> "bool",
   keys |-> (IF must # <<>> THEN {"must"} ELSE {})
            \cup (IF filter # <<>> THEN {"filter"} ELSE {}),
   must |-> must, filter |-> filter]

\* the final assembly (lines 147-156): keys lists the keys of the bool dict
Assemble(must, filter) ==
  IF must = <<>> /\ filter = <<>>
  THEN [kind |-> "match_all", keys |-> {}, must |-> <<>>, filter |-> <<>>]
  ELSE [kind |-> "bool",
        keys |-> (IF must # <<>> THEN {"must"} ELSE {})
                 \cup (IF filter # <<>> THEN {"filter"} ELSE {}),
        must |-> must, filter |-> filter]

build_query(e) == Assemble(MustClauses(e), FilterClauses(e))


\* ------------------------------------------------------------ the inputs
\* query texts: every character sequence over a letter and a blank
RECURSIVE SeqsUpTo(_, _)
SeqsUpTo(S, n) ==
  IF n = 0 THEN {<<>>}
  ELSE LET P == SeqsUpTo(S, n - 1)
       IN P \cup {Append(q, c) : q \in {r \in P : Len(r) = n - 1}, c \in S}

Queries == SeqsUpTo({"a", " "}, MaxQueryLen)

\* reply texts of the extraction capability: a bare object, an object with a
\* nested object, fenced with and without the language tag, wrapped in prose,
\* a padded empty object; prose only, a JSON value that is no object, the
\* empty text, a truncated object, braces around prose; an object followed by
\* a fenced block of prose in braces, a fenced block holding two objects
ReplyTexts ==
  {<<"{", "m", "}">>,
   <<"{", "m", "{", "m", "}", "}">>,
   <<"~~~", "json", " ", "{", "m", "}", " ", "~~~">>,
   <<"~~~", " ", "{", "m", "{", "m", "}", "}", " ", "~~~">>,
   <<"w", " ", "{", "m", "}", " ", "w">>,
   <<" ", "{", "}", " ">>,
   <<"w", " ", "w">>,
   <<"v">>,
   <<>>,
   <<"w", " ", "{", "m">>,
   <<"{", "w", "}">>,
   <<"{", "m", "}", " ", "~~~", "{", "w", "}", "~~~">>,
   <<"~~~", "{", "m", "}", " ", "{", "m", "}", "~~~">>}

\* query parameters of the filter route: at most one value per parameter; the
\* location parameter is missing, a text that is no JSON object ("invalid"),
\* or a JSON object
FilterParams ==
  {[f \in Fields |->
      CASE f = "phase" -> ph [] f = "status" -> st [] f = "condition" -> co
        [] f = "keyword" -> kw [] f = "sponsor" -> sp [] f = "age_group" -> ag
        [] f = "location" -> lo [] f = "enrollment_min" -> lb
        [] f = "enrollment_max" -> ub
        [] f = "confidence" -> Num("num", 10)
        [] f = "clarification" -> Absent] :
     ph \in {Absent, "", "PHASE2"}, st \in {Absent, "RECRUITING"},
     co \in {Absent, "Asthma"}, kw \in {Absent, "BRCA1"},
     sp \in {Absent, "Pfizer"}, ag \in {Absent, "adult"},
     lo \in {AbsentLoc, Loc("invalid", Absent, Absent, Absent, FALSE)}
            \cup {Loc("dict", ci, sa, cy, FALSE) :
                    ci \in {Absent, "Boston"}, sa \in {Absent, "MA"},
                    cy \in {Absent, "", "US"}},
     lb \in {AbsentNum, Num("num", 0), Num("num", 50), Num("num", -5)},
     ub \in {AbsentNum, Num("num", 10)}}

HasMembers(span) == \E i \in 1..Len(span) : span[i] = "m"
HasInner(span) == \E i \in 2..Len(span) : span[i] = "{"

\* the object o can be what json.loads makes of span: a location object
\* needs inner braces, any key needs member text or inner braces
Denotes(span, o) ==
  /\ o["location"].t = "dict" => HasInner(span)
  /\ o # EmptyObj => HasMembers(span) \/ HasInner(span)
  /\ (\E f \in Fields \ {"location"} : o[f] # EmptyObj[f]) => HasMembers(span)

\* the objects a reply text can decode to (EmptyObj stands in when none does)
ReplyObjs(text) ==
  LET p == ParseJsonResponse(text)
  IN IF p.kind # "object" THEN {EmptyObj}
     ELSE {o \in Objs : Denotes(p.span, o)}

\* ------------------------------------------------------- extract_entities
EmptyQueryConfidence == 1
ParseFailConfidence == 3
FailureConfidence == 0

EmptyQueryMsg == "Please enter a search query about clinical trials."
ParseFailMsg == "I had trouble understanding your query. Could you rephrase it?"
UnavailableMsg == "The search service is temporarily unavailable. Please try again."
UnexpectedMsg == "An unexpected error occurred. Please try again."

\* (variant) the catch-all clause is missing
ExceptClause_NoCatchAll(exc) ==
  CASE exc = "JSONDecodeError" -> "parse_error"
    [] exc = "APIError" -> "api_error"
    [] OTHER -> "uncaught"

\* (variant) the API-error clause is missing
ExceptClause_NoApiClause(exc) ==
  CASE exc = "JSONDecodeError" -> "parse_error"
    [] OTHER -> "unexpected"

\* the except clause of extract_entities that handles exception exc
\* ("uncaught": none does and the exception leaves the function)
ExceptClause(exc) ==
  CASE exc = "JSONDecodeError" -> "parse_error"
    [] exc = "APIError" -> "api_error"
    [] OTHER -> "unexpected"

\* the structure each except clause returns
ClauseResult(clause) ==
  CASE clause = "parse_error" -> Fallback(ParseFailConfidence, ParseFailMsg)
    [] clause = "api_error" -> Fallback(FailureConfidence, UnavailableMsg)
    [] clause = "unexpected" -> Fallback(FailureConfidence, UnexpectedMsg)

\* the first exception raised by lines 209-212 on a reply, or "none":
\* _parse_json_response, then _validate_and_normalize (a value that is no
\* dict has no .get), then the ExtractedEntities constructor
ReplyExc(text, obj) ==
  LET p == ParseJsonResponse(text) IN
  IF p.kind = "error" THEN "JSONDecodeError"
  ELSE IF p.kind = "value" THEN "AttributeError"
  ELSE IF NormalizeExc(obj) # "none" THEN NormalizeExc(obj)
  ELSE IF ConstructRaises(ValidateAndNormalize(obj)) THEN "ValidationError"
  ELSE "none"

VARIABLES pc, route, query, calls, reply, parsed, normalized, result, path,
          raised, es_query, http,
          s_pc, body, es_calls, response, s_return, s_exc,
          g_pc, g_args, g_calls, g_matches, suggestions, seen, g_return,
          g_exc,
          r_pc, r_req, r_status, r_body

\* the state of the search and filter routes up to the compiled query
extractVars == <<pc, route, query, calls, reply, parsed, normalized, result,
                 path, raised, es_query, http>>

\* the state of one ElasticsearchService.search call
searchVars == <<s_pc, body, es_calls, response, s_return, s_exc>>

\* the state of one SuggestionService.get_suggestions call
suggestVars == <<g_pc, g_args, g_calls, g_matches, suggestions, seen,
                 g_return, g_exc>>

\* the state of one request to the search or the suggest route
routeVars == <<r_pc, r_req, r_status, r_body>>

vars == <<extractVars, searchVars, suggestVars, routeVars>>

NoReply == [kind |-> "none", text |-> <<>>, obj |-> EmptyObj]

Init ==
  /\ pc = "idle"
  /\ route = "none"
  /\ query = <<>>
  /\ calls = 0
  /\ reply = NoReply
  /\ parsed = <<>>
  /\ normalized = <<>>
  /\ result = <<>>
  /\ path = "none"
  /\ raised = "none"
  /\ es_query = <<>>
  /\ http = 0
  /\ s_pc = "idle"
  /\ body = <<>>
  /\ response = <<>>
  /\ s_return = <<>>
  /\ s_exc = "none"
  /\ g_pc = "idle"
  /\ g_args = <<>>
  /\ g_calls = <<>>
  /\ g_matches = <<>>
  /\ suggestions = <<>>
  /\ seen = {}
  /\ g_return = <<>>
  /\ g_exc = "none"
  /\ es_calls = 0
  /\ r_pc = "idle"
  /\ r_req = <<>>
  /\ r_status = 0
  /\ r_body = <<>>

\* the function leaves through an except clause, or the exception escapes
Handle(exc) ==
  IF ExceptClause(exc) = "uncaught"
  THEN /\ raised' = exc
       /\ result' = <<>>
       /\ path' = "raised"
       /\ pc' = "failed"
  ELSE /\ raised' = "none"
       /\ result' = <<ClauseResult(ExceptClause(exc))>>
       /\ path' = ExceptClause(exc)
       /\ pc' = "extracted"

\* extract_entities on an empty or whitespace-only query (lines 181-185)
ExtractEmpty(q) ==
  /\ pc = "idle"
  /\ q = <<>> \/ Strip(q) = <<>>
  /\ query' = q
  /\ route' = "search"
  /\ result' = <<Fallback(EmptyQueryConfidence, EmptyQueryMsg)>>
  /\ path' = "empty"
  /\ pc' = "extracted"
  /\ UNCHANGED <<calls, reply, parsed, normalized, raised, es_query, http>>
  /\ UNCHANGED <<searchVars, suggestVars, routeVars>>

\* extract_entities up to the await of client.messages.create (lines 187-204)
ExtractCall(q) ==
  /\ pc = "idle"
  /\ ~(q = <<>> \/ Strip(q) = <<>>)
  /\ query' = q
  /\ route' = "search"
  /\ calls' = calls + 1
  /\ pc' = "awaiting"
  /\ UNCHANGED <<reply, parsed, normalized, result, path, raised, es_query, http>>
  /\ UNCHANGED <<searchVars, suggestVars, routeVars>>

\* the call returns a reply text: parse, normalise, construct (lines 206-212)
\* or leave through an except clause (lines 214-231)
ReplyText(text, obj) ==
  /\ pc = "awaiting"
  /\ reply' = [kind |-> "text", text |-> text, obj |-> obj]
  /\ LET isObject == ParseJsonResponse(text).kind = "object"
         exc == ReplyExc(text, obj)
     IN /\ parsed' = IF isObject THEN <<obj>> ELSE <<>>
        /\ normalized' =
             IF isObject /\ NormalizeExc(obj) = "none"
             THEN <<ValidateAndNormalize(obj)>> ELSE <<>>
        /\ IF exc = "none"
           THEN /\ result' = <<ExtractedEntities(ValidateAndNormalize(obj))>>
                /\ path' = "ok"
                /\ raised' = "none"
                /\ pc' = "extracted"
           ELSE Handle(exc)
  /\ UNCHANGED <<route, query, calls, es_query, http>>
  /\ UNCHANGED <<searchVars, suggestVars, routeVars>>

\* (variant) the call is made again after an API error
ApiError_Retry ==
  /\ pc = "awaiting"
  /\ calls < 2
  /\ calls' = calls + 1
  /\ UNCHANGED <<pc, route, query, reply, parsed, normalized, result, path,
                 raised, es_query, http>>
  /\ UNCHANGED <<searchVars, suggestVars, routeVars>>

\* the call raises anthropic.APIError (lines 220-225)
ApiError ==
  /\ pc = "awaiting"
  /\ reply' = [kind |-> "api_error", text |-> <<>>, obj |-> EmptyObj]
  /\ Handle("APIError")
  /\ UNCHANGED <<route, query, calls, parsed, normalized, es_query, http>>
  /\ UNCHANGED <<searchVars, suggestVars, routeVars>>

\* the call, or reading message.content[0].text, raises another exception
\* (lines 226-231)
OtherError(exc) ==
  /\ pc = "awaiting"
  /\ reply' = [kind |-> exc, text |-> <<>>, obj |-> EmptyObj]
  /\ Handle(exc)
  /\ UNCHANGED <<route, query, calls, parsed, normalized, es_query, http>>
  /\ UNCHANGED <<searchVars, suggestVars, routeVars>>

\* ------------------------------------------------------------ the routes
\* the filter route builds the structure from its parameters (lines 72-89);
\* a location text that is no JSON object, or a value the models reject,
\* ends the request with status 500 (lines 98-100)
FilterRequest(params) ==
  /\ pc = "idle"
  /\ route' = "filter"
  /\ LET data == [params EXCEPT !["location"] =
                    IF @.t = "dict" THEN LocationFilterOf(@) ELSE @]
     IN IF params["location"].t = "invalid" \/ ConstructRaises(data)
        THEN /\ http' = 500
             /\ pc' = "responded"
             /\ UNCHANGED <<result, path>>
        ELSE /\ result' = <<ExtractedEntities(data)>>
             /\ path' = "params"
             /\ pc' = "extracted"
             /\ http' = http
  /\ UNCHANGED <<query, calls, reply, parsed, normalized, raised, es_query>>
  /\ UNCHANGED <<searchVars, suggestVars, routeVars>>

\* es_service.search compiles the structure (es_service.py line 165)
BuildQuery ==
  /\ pc = "extracted"
  /\ es_query' = <<build_query(result[1])>>
  /\ pc' = "compiled"
  /\ UNCHANGED <<route, query, calls, reply, parsed, normalized, result, path,
                 raised, http>>
  /\ UNCHANGED <<searchVars, suggestVars, routeVars>>

\* (variant) the second call sees the clause lists of the first
BuildQueryAgain_Stateful ==
  /\ pc = "compiled"
  /\ route = "filter"
  /\ es_query' = <<Assemble(es_query[1].must \o MustClauses(result[1]),
                            es_query[1].filter \o FilterClauses(result[1]))>>
  /\ pc' = "recompiled"
  /\ UNCHANGED <<route, query, calls, reply, parsed, normalized, result, path,
                 raised, http>>
  /\ UNCHANGED <<searchVars, suggestVars, routeVars>>

\* a later call of build_query on the same structure (lines 44-156), taken
\* on the structures of the filter route, which set every kind of clause
BuildQueryAgain ==
  /\ pc = "compiled"
  /\ route = "filter"
  /\ es_query' = <<build_query(result[1])>>
  /\ pc' = "recompiled"
  /\ UNCHANGED <<route, query, calls, reply, parsed, normalized, result, path,
                 raised, http>>
  /\ UNCHANGED <<searchVars, suggestVars, routeVars>>

Next ==
  \/ pc = "idle" /\ \E q \in Queries : ExtractEmpty(q)
  \/ pc = "idle" /\ \E q \in Queries : ExtractCall(q)
  \/ pc = "awaiting"
       /\ \E text \in ReplyTexts : \E obj \in ReplyObjs(text) : ReplyText(text, obj)
  \/ ApiError
  \/ \E exc \in {"RuntimeError", "IndexError"} : OtherError(exc)
  \/ pc = "idle" /\ \E params \in FilterParams : FilterRequest(params)
  \/ BuildQuery
  \/ BuildQueryAgain

Spec == Init /\ [][Next]_vars

\* ====================================================== es_service.search
\* bounds of the search runs
MaxPage == 2
MaxPageSize == 2
MaxTotal == 3
MaxFacilities == 4

\* the facility cap of the mapping (the slice [:3])
FacilityCap == 3

\* optional scalar fields of a hit (read with source.get)
OptScalars ==
  {"official_title", "phase", "overall_status", "enrollment",
   "brief_summaries_description", "start_date", "completion_date", "gender",
   "study_type", "source"}

\* nested collections of a hit (read with source.get(key, []))
Collections == {"sponsors", "facilities", "conditions", "age"}

\* a raw hit's _source: nct_id and brief_title are a text or Absent (the key
\* is missing), opt gives each optional scalar or Absent, and each collection
\* is <<>> (the key is missing) or <<list>>.  An entry of sponsors,
\* facilities and age is a dict with the key name (age: age_category);
\* Absent stands for an entry without that key.
Entries(names) == [i \in 1..Len(names) |-> [name |-> names[i]]]

\* the order the engine returned the facilities in (not sorted by name)
EngineFacilities == <<"F4", "F2", "F5", "F1", "F3", "F6">>

FacilityList(n) == Entries(SubSeq(EngineFacilities, 1, n))

AllScalars == [f \in OptScalars |-> "val"]
NoScalars == [f \in OptScalars |-> Absent]

FullHit(id, n) ==
  [nct_id |-> id, brief_title |-> "Title " \o id, opt |-> AllScalars,
   sponsors |-> <<Entries(<<"S1", "S2", "S3", "S4">>)>>,
   facilities |-> <<FacilityList(n)>>,
   conditions |-> <<Entries(<<"C1", "C2", "C3", "C4">>)>>,
   age |-> <<Entries(<<"child", "adult", "older_adult", "all">>)>>]

\* a hit with the required fields only
BareHit(id) ==
  [nct_id |-> id, brief_title |-> "Title " \o id, opt |-> NoScalars,
   sponsors |-> <<>>, facilities |-> <<>>, conditions |-> <<>>, age |-> <<>>]

\* some optional fields present, some missing
PartialHit(id) ==
  [BareHit(id) EXCEPT !.opt = [NoScalars EXCEPT !["phase"] = "val"],
                      !.facilities = <<FacilityList(1)>>]

RawHits ==
  {FullHit("NCT1", n) : n \in 0..MaxFacilities}
  \cup {BareHit("NCT2"), PartialHit("NCT3"),
        [BareHit("NCT4") EXCEPT !.nct_id = Absent],
        [FullHit("NCT5", 1) EXCEPT !.brief_title = Absent],
        [BareHit("NCT6") EXCEPT !.sponsors = <<Entries(<<"S1", Absent>>)>>]}

\* source.get(key): None when the key is missing
GetScalar_Default(source, f) ==
  IF source.opt[f] = Absent THEN "" ELSE source.opt[f]

GetScalar(source, f) == IF source.opt[f] = Absent THEN Null ELSE source.opt[f]

\* source.get(key, [])
GetList(col) == IF col = <<>> THEN <<>> ELSE col[1]

Sponsor(s) ==
  [name |-> s.name, agency_class |-> Null, lead_or_collaborator |-> Null]

Facility(f) ==
  [name |-> f.name, city |-> Null, state |-> Null, zip |-> Null,
   country |-> Null, status |-> Null]

AgeCategory(a) == [age_category |-> a.name]

\* (variant) the last three facilities are kept
MapFacilities_LastThree(source) ==
  LET fs == GetList(source.facilities)
      k == Min2(FacilityCap, Len(fs))
  IN [i \in 1..k |-> Facility(fs[Len(fs) - k + i])]

\* [Facility(**f) for f in source.get("facilities", [])[:3]]
MapFacilities(source) ==
  LET fs == GetList(source.facilities)
  IN [i \in 1..Min2(FacilityCap, Len(fs)) |-> Facility(fs[i])]

MapSponsors(source) ==
  LET ss == GetList(source.sponsors) IN [i \in 1..Len(ss) |-> Sponsor(ss[i])]

MapAge(source) ==
  LET as == GetList(source.age) IN [i \in 1..Len(as) |-> AgeCategory(as[i])]

\* the TrialResult built from one hit
TrialResult(source) ==
  [nct_id |-> source.nct_id, brief_title |-> source.brief_title,
   opt |-> [f \in OptScalars |-> GetScalar(source, f)],
   sponsors |-> MapSponsors(source),
   facilities |-> MapFacilities(source),
   conditions |-> GetList(source.conditions),
   age |-> MapAge(source)]

\* (variant) a missing required field is read as None and defaulted
RequiredRaises_Never(source) == FALSE

\* source["nct_id"], source["brief_title"]: KeyError when the key is missing
RequiredRaises(source) ==
  source.nct_id = Absent \/ source.brief_title = Absent

\* Sponsor(**s) and AgeCategory(**a) need their required key
EntryRaises(source) ==
  \/ \E i \in 1..Len(GetList(source.sponsors)) :
       GetList(source.sponsors)[i].name = Absent
  \/ \E i \in 1..Len(GetList(source.age)) :
       GetList(source.age)[i].name = Absent

\* the exception mapping one hit raises, or "none"
HitExc(source) ==
  IF RequiredRaises(source) THEN "KeyError"
  ELSE IF EntryRaises(source) THEN "ValidationError"
  ELSE "none"

\* the exception the loop over the hits raises: that of the first bad hit
LoopExc(hits) ==
  IF \A i \in 1..Len(hits) : HitExc(hits[i]) = "none" THEN "none"
  ELSE HitExc(hits[CHOOSE i \in 1..Len(hits) :
                     /\ HitExc(hits[i]) # "none"
                     /\ \A j \in 1..(i - 1) : HitExc(hits[j]) = "none"])

\* (variant) the total is the number of records on the page
SearchTotal_PageCount(resp) == Len(resp.hits)

\* response["hits"]["total"]["value"]
SearchTotal(resp) == resp.total

\* (variant) the offset is page * page_size
SearchBody_PageOffset(entities, page, page_size) ==
  [query |-> build_query(entities), from |-> page * page_size,
   size |-> page_size, sort |-> <<"_score desc", "enrollment desc">>,
   source |-> "_SOURCE_FIELDS"]

\* the request body of line 169
SearchBody(entities, page, page_size) ==
  [query |-> build_query(entities), from |-> (page - 1) * page_size,
   size |-> page_size, sort |-> <<"_score desc", "enrollment desc">>,
   source |-> "_SOURCE_FIELDS"]

\* what the engine can answer to a request: a total, and the slice of the
\* matches the request's from and size select
PageLen(total, from, size) ==
  IF total <= from THEN 0 ELSE Min2(size, total - from)

Responses(req) ==
  UNION {{[hits |-> hs, total |-> t] :
            hs \in [1..PageLen(t, req.from, req.size) -> RawHits]} :
         t \in 0..MaxTotal}

\* the structures searched with
SearchEntities ==
  {ExtractedEntities(EmptyObj),
   ExtractedEntities([EmptyObj EXCEPT !["condition"] = "Asthma"]),
   ExtractedEntities([EmptyObj EXCEPT !["phase"] = "PHASE2",
                                      !["enrollment_min"] = Num("num", 50)])}

\* search compiles the structure and sends the request (lines 165-176)
SearchCall(entities, page, page_size) ==
  /\ s_pc = "idle"
  /\ body' = <<SearchBody(entities, page, page_size)>>
  /\ es_calls' = es_calls + 1
  /\ s_pc' = "requested"
  /\ UNCHANGED <<response, s_return, s_exc>>
  /\ UNCHANGED <<extractVars, suggestVars, routeVars>>

\* the engine answers; the hits are mapped and the pair returned, or the
\* mapping raises (lines 178-207)
EngineReply(resp) ==
  /\ s_pc = "requested"
  /\ response' = <<resp>>
  /\ IF LoopExc(resp.hits) # "none"
     THEN /\ s_exc' = LoopExc(resp.hits)
          /\ s_return' = <<>>
          /\ s_pc' = "raised"
     ELSE /\ s_return' =
               <<[results |-> [i \in 1..Len(resp.hits) |->
                                TrialResult(resp.hits[i])],
                  total |-> SearchTotal(resp)]>>
          /\ s_exc' = "none"
          /\ s_pc' = "returned"
  /\ UNCHANGED <<body, es_calls>>
  /\ UNCHANGED <<extractVars, suggestVars, routeVars>>

\* the engine call itself fails (line 167)
EngineFault ==
  /\ s_pc = "requested"
  /\ s_exc' = "ConnectionError"
  /\ s_pc' = "raised"
  /\ UNCHANGED <<body, es_calls, response, s_return>>
  /\ UNCHANGED <<extractVars, suggestVars, routeVars>>

NextSearch ==
  \/ \E entities \in SearchEntities, page \in 1..MaxPage,
        page_size \in 1..MaxPageSize : SearchCall(entities, page, page_size)
  \/ s_pc = "requested" /\ \E resp \in Responses(body[1]) : EngineReply(resp)
  \/ EngineFault

SpecSearch == Init /\ [][NextSearch]_vars

\* ==================================================== get_suggestions
\* bounds of the suggestion runs
MaxMatches == 3
MaxLimit == 2

MIN_PREFIX_LENGTH == 2

\* the prefix argument: None, or a text (a sequence of characters)
NonePrefix == [none |-> TRUE, text |-> <<>>]
TextPrefix(t) == [none |-> FALSE, text |-> t]

Prefixes ==
  {NonePrefix} \cup
  {TextPrefix(t) : t \in {<<>>, <<" ">>, <<" ", " ", " ">>, <<"a">>,
                          <<" ", "a">>, <<"a", " ">>, <<" ", "a", " ">>,
                          <<" ", "a", "a", " ">>, <<"a", " ", "a">>}}

\* (variant) the length is taken before stripping
TooShort_NoStrip(p) ==
  p.none \/ p.text = <<>> \/ Len(p.text) < MIN_PREFIX_LENGTH

\* the guard of line 39: not prefix or len(prefix.strip()) < MIN_PREFIX_LENGTH
TooShort(p) ==
  p.none \/ p.text = <<>> \/ Len(Strip(p.text)) < MIN_PREFIX_LENGTH

\* the brief_title of a hit's _source: a text, "" or Absent (the key is
\* missing) or Null (the document holds null)
Titles == {"Test Trial", "test trial", "Cancer Study", "", Absent, Null}

\* (variant) titles are compared as they are
Lower_Identity(title) == title

\* str.lower on the titles
Lower(title) ==
  CASE title = "Test Trial" -> "test trial"
    [] title = "Cancer Study" -> "cancer study"
    [] OTHER -> title

\* hit["_source"].get("brief_title", "")
GetTitle(t) == IF t = Absent THEN "" ELSE t

\* the engine's relevance-ordered matches of a query
MatchLists == SeqsUpTo(Titles, MaxMatches)

\* the match lists that fit in one page (the fallback query's answers)
OnePage(size) == {m \in MatchLists : Len(m) <= size}

\* the engine returns the first size matches
Page(matches, size) == SubSeq(matches, 1, Min2(size, Len(matches)))

\* the request bodies (lines 44-64 and 77-90)
PrimaryBody(text, lim) ==
  [size |-> lim, query |-> text, type |-> "bool_prefix",
   fields |-> <<"brief_title.suggest", "brief_title.suggest._2gram",
                "brief_title.suggest._3gram", "official_title.suggest",
                "official_title.suggest._2gram",
                "official_title.suggest._3gram">>,
   source |-> <<"brief_title">>]

FallbackBody(text, lim) ==
  [size |-> lim, query |-> text, type |-> "phrase_prefix",
   fields |-> <<"brief_title", "official_title">>,
   source |-> <<"brief_title">>]

\* None.lower() raises AttributeError
LowerRaises(hits) == \E i \in 1..Len(hits) : hits[i] = Null

\* the de-duplication loop (lines 69-74 and 92-97) over hits, starting from
\* the suggestions and the seen set acc
RECURSIVE Dedupe(_, _)
Dedupe(hits, acc) ==
  IF hits = <<>> THEN acc
  ELSE LET title == GetTitle(Head(hits))
           key == Lower(title)
       IN IF key # "" /\ key \notin acc.seen
          THEN Dedupe(Tail(hits),
                      [suggestions |-> Append(acc.suggestions, title),
                       seen |-> acc.seen \cup {key}])
          ELSE Dedupe(Tail(hits), acc)

\* (variant) the fallback query is always issued
NeedFallback_Always(sugg) == TRUE

\* if not suggestions (line 76)
NeedFallback(sugg) == sugg = <<>>

\* suggestions[:limit]
Truncate(sugg, lim) == SubSeq(sugg, 1, Min2(lim, Len(sugg)))

\* the guard returns [] before any engine call (lines 39-40)
SuggestShort(p, lim) ==
  /\ g_pc = "idle"
  /\ TooShort(p)
  /\ g_args' = <<[prefix |-> p, limit |-> lim]>>
  /\ g_return' = << <<>> >>
  /\ g_pc' = "returned"
  /\ UNCHANGED <<g_calls, g_matches, suggestions, seen, g_exc>>
  /\ UNCHANGED <<extractVars, searchVars, routeVars>>

\* the prefix is stripped and the primary query sent (lines 42-64)
SuggestCall(p, lim) ==
  /\ g_pc = "idle"
  /\ ~TooShort(p)
  /\ g_args' = <<[prefix |-> p, limit |-> lim]>>
  /\ g_calls' = <<PrimaryBody(Strip(p.text), lim)>>
  /\ g_pc' = "primary"
  /\ UNCHANGED <<g_matches, suggestions, seen, g_return, g_exc>>
  /\ UNCHANGED <<extractVars, searchVars, routeVars>>

\* the primary answer is de-duplicated; with no suggestion the fallback
\* query is sent, otherwise the truncated list is returned (lines 66-99)
PrimaryReply(matches) ==
  /\ g_pc = "primary"
  /\ g_matches' = <<matches>>
  /\ LET lim == g_args[1].limit
         hits == Page(matches, g_calls[1].size)
         acc == Dedupe(hits, [suggestions |-> <<>>, seen |-> {}])
     IN IF LowerRaises(hits)
        THEN /\ g_exc' = "AttributeError"
             /\ g_pc' = "raised"
             /\ UNCHANGED <<g_calls, suggestions, seen, g_return>>
        ELSE /\ suggestions' = acc.suggestions
             /\ seen' = acc.seen
             /\ g_exc' = "none"
             /\ IF NeedFallback(acc.suggestions)
                THEN /\ g_calls' =
                          Append(g_calls, FallbackBody(g_calls[1].query, lim))
                     /\ g_pc' = "fallback"
                     /\ UNCHANGED g_return
                ELSE /\ g_return' = <<Truncate(acc.suggestions, lim)>>
                     /\ g_pc' = "returned"
                     /\ UNCHANGED g_calls
  /\ UNCHANGED g_args
  /\ UNCHANGED <<extractVars, searchVars, routeVars>>

\* the fallback answer goes through the same loop (lines 92-99)
FallbackReply(matches) ==
  /\ g_pc = "fallback"
  /\ g_matches' = Append(g_matches, matches)
  /\ LET lim == g_args[1].limit
         hits == Page(matches, g_calls[2].size)
         acc == Dedupe(hits, [suggestions |-> suggestions, seen |-> seen])
     IN IF LowerRaises(hits)
        THEN /\ g_exc' = "AttributeError"
             /\ g_pc' = "raised"
             /\ UNCHANGED <<suggestions, seen, g_return>>
        ELSE /\ suggestions' = acc.suggestions
             /\ seen' = acc.seen
             /\ g_exc' = "none"
             /\ g_return' = <<Truncate(acc.suggestions, lim)>>
             /\ g_pc' = "returned"
  /\ UNCHANGED <<g_args, g_calls>>
  /\ UNCHANGED <<extractVars, searchVars, routeVars>>

\* an engine call fails: the exception leaves get_suggestions
SuggestFault ==
  /\ g_pc \in {"primary", "fallback"}
  /\ g_exc' = "ConnectionError"
  /\ g_pc' = "raised"
  /\ UNCHANGED <<g_args, g_calls, g_matches, suggestions, seen, g_return>>
  /\ UNCHANGED <<extractVars, searchVars, routeVars>>

NextSuggest ==
  \/ \E p \in Prefixes, lim \in 1..MaxLimit : SuggestShort(p, lim)
  \/ \E p \in Prefixes, lim \in 1..MaxLimit : SuggestCall(p, lim)
  \/ g_pc = "primary" /\ \E matches \in MatchLists : PrimaryReply(matches)
  \/ g_pc = "fallback"
       /\ \E matches \in OnePage(g_calls[2].size) : FallbackReply(matches)
  \/ SuggestFault

SpecSuggest == Init /\ [][NextSuggest]_vars

\* ============================================================ the routes
\* the upper limit of page_size (Query(default=10, ge=1, le=100))
PAGE_SIZE_LE == 100

\* limit when the suggest route calls the service
DEFAULT_LIMIT == 10

\* the minimal length of q (Query(..., min_length=2))
Q_MIN_LENGTH == 2

\* a request: route is "search" or "suggest", q the query text (missing: the
\* parameter is not given), page and page_size the pagination parameters
SearchReq(q, page, page_size) ==
  [route |-> "search", q |-> q, missing |-> FALSE, page |-> page,
   page_size |-> page_size]

SuggestReq(q, missing) ==
  [route |-> "suggest", q |-> q, missing |-> missing, page |-> 0,
   page_size |-> 0]

\* the requests made: a query and a blank query, pages and page sizes around
\* the limits of the validation
RouteQueries == {<<"a">>, <<" ">>}
RoutePages == 0..MaxPage
RoutePageSizes == (0..MaxPageSize) \cup {PAGE_SIZE_LE + 1}
SuggestQueries ==
  {<<>>, <<"a">>, <<" ", "a">>, <<"a", "a">>, <<" ", "a", "a", " ">>}

\* the replies of the extraction capability in the route runs: an object
\* with a condition, one with a condition and a clarification, the empty
\* object, prose, a JSON value that is no object, a negative enrollment bound
RouteReplies ==
  {<<<<"{", "m", "}">>, [EmptyObj EXCEPT !["condition"] = "Asthma"]>>,
   <<<<"{", "m", "}">>,
     [EmptyObj EXCEPT !["condition"] = "Asthma",
                      !["clarification"] = "Did you mean asthma?"]>>,
   <<<<" ", "{", "}", " ">>, EmptyObj>>,
   <<<<"w", " ", "w">>, EmptyObj>>,
   <<<<"v">>, EmptyObj>>,
   <<<<"{", "m", "}">>,
     [EmptyObj EXCEPT !["condition"] = "Asthma",
                      !["enrollment_min"] = Num("num", -5)]>>}

\* (variant) page_size has no upper limit
SearchParamsInvalid_NoUpper(req) == req.page < 1 \/ req.page_size < 1

\* the validation FastAPI applies to the parameters of search_trials
SearchParamsInvalid(req) ==
  req.page < 1 \/ req.page_size < 1 \/ req.page_size > PAGE_SIZE_LE

\* the validation FastAPI applies to the parameter of the suggest route
SuggestParamsInvalid(req) == req.missing \/ Len(req.q) < Q_MIN_LENGTH

\* (variant) the clarification of the structure is not copied
SearchResponse_NoClarification(entities, ret, page, page_size) ==
  [query_interpretation |-> entities, results |-> ret.results,
   total |-> ret.total, page |-> page, page_size |-> page_size,
   clarification |-> Null, suggestions |-> <<>>]

\* SearchResponse(query_interpretation=..., clarification=entities.clarification)
SearchResponse(entities, ret, page, page_size) ==
  [query_interpretation |-> entities, results |-> ret.results,
   total |-> ret.total, page |-> page, page_size |-> page_size,
   clarification |-> entities["clarification"], suggestions |-> <<>>]

\* SuggestionResponse(suggestions=suggestions), in the shape of r_body
SuggestionResponse(sugg) ==
  [query_interpretation |-> Fallback(0, Null), results |-> <<>>, total |-> 0,
   page |-> 0, page_size |-> 0, clarification |-> Null, suggestions |-> sugg]

\* (variant) an exception is answered like a result
HandlerStatus_Masked(raises) == 200

\* the status a handler ends with: 200 on return, 500 from the except clause
\* that raises HTTPException(status_code=500)
HandlerStatus(raises) == IF raises THEN 500 ELSE 200

\* a request reaches search_trials, or is rejected with 422 by the
\* validation of its parameters (search.py lines 21-26)
search_trials(q, page, page_size) ==
  /\ r_pc = "idle"
  /\ r_req' = <<SearchReq(q, page, page_size)>>
  /\ IF SearchParamsInvalid(SearchReq(q, page, page_size))
     THEN r_status' = 422 /\ r_pc' = "done"
     ELSE r_status' = r_status /\ r_pc' = "search"
  /\ UNCHANGED r_body
  /\ UNCHANGED <<extractVars, searchVars, suggestVars>>

\* search_trials returns the SearchResponse, or turns an exception of
\* extract_entities or search into status 500 (lines 27-41)
search_trials_return ==
  /\ r_pc = "search"
  /\ \/ /\ s_pc = "returned"
        /\ r_status' = HandlerStatus(FALSE)
        /\ r_body' = <<SearchResponse(result[1], s_return[1], r_req[1].page,
                                      r_req[1].page_size)>>
     \/ /\ s_pc = "raised" \/ pc = "failed"
        /\ r_status' = HandlerStatus(TRUE)
        /\ r_body' = <<>>
  /\ r_pc' = "done"
  /\ UNCHANGED r_req
  /\ UNCHANGED <<extractVars, searchVars, suggestVars>>

\* a request reaches the suggest route, or is rejected with 422
\* (search.py lines 103-106)
get_suggestions(q, missing) ==
  /\ r_pc = "idle"
  /\ r_req' = <<SuggestReq(q, missing)>>
  /\ IF SuggestParamsInvalid(SuggestReq(q, missing))
     THEN r_status' = 422 /\ r_pc' = "done"
     ELSE r_status' = r_status /\ r_pc' = "suggest"
  /\ UNCHANGED r_body
  /\ UNCHANGED <<extractVars, searchVars, suggestVars>>

\* the suggest route returns the suggestions or status 500 (lines 108-113)
get_suggestions_return ==
  /\ r_pc = "suggest"
  /\ \/ /\ g_pc = "returned"
        /\ r_status' = HandlerStatus(FALSE)
        /\ r_body' = <<SuggestionResponse(g_return[1])>>
     \/ /\ g_pc = "raised"
        /\ r_status' = HandlerStatus(TRUE)
        /\ r_body' = <<>>
  /\ r_pc' = "done"
  /\ UNCHANGED r_req
  /\ UNCHANGED <<extractVars, searchVars, suggestVars>>

\* a request through the routes: the steps of extract_entities, search and
\* the suggestion service run between the route's entry and its return
NextRoute ==
  \/ r_pc = "idle"
       /\ \E q \in RouteQueries, page \in RoutePages,
             page_size \in RoutePageSizes : search_trials(q, page, page_size)
  \/ r_pc = "search" /\ ExtractEmpty(r_req[1].q)
  \/ r_pc = "search" /\ ExtractCall(r_req[1].q)
  \/ r_pc = "search" /\ pc = "awaiting"
       /\ \E rp \in RouteReplies : ReplyText(rp[1], rp[2])
  \/ r_pc = "search" /\ ApiError
  \/ r_pc = "search" /\ OtherError("RuntimeError")
  \/ r_pc = "search" /\ pc = "extracted"
       /\ SearchCall(result[1], r_req[1].page, r_req[1].page_size)
  \/ r_pc = "search" /\ s_pc = "requested"
       /\ \E resp \in Responses(body[1]) : EngineReply(resp)
  \/ r_pc = "search" /\ EngineFault
  \/ search_trials_return
  \/ r_pc = "idle"
       /\ \E q \in SuggestQueries, missing \in BOOLEAN :
            get_suggestions(q, missing)
  \/ r_pc = "suggest" /\ SuggestShort(TextPrefix(r_req[1].q), DEFAULT_LIMIT)
  \/ r_pc = "suggest" /\ SuggestCall(TextPrefix(r_req[1].q), DEFAULT_LIMIT)
  \/ r_pc = "suggest" /\ g_pc = "primary"
       /\ \E matches \in MatchLists : PrimaryReply(matches)
  \/ r_pc = "suggest" /\ g_pc = "fallback"
       /\ \E matches \in OnePage(g_calls[2].size) : FallbackReply(matches)
  \/ r_pc = "suggest" /\ SuggestFault
  \/ get_suggestions_return

SpecRoute == Init /\ [][NextRoute]_vars

\* ================================================================ claims
Returned == route = "search" /\ pc \notin {"idle", "awaiting"}

IsBlank(q) == \A i \in 1..Len(q) : q[i] = " "

FilterFields == Fields \ {"confidence", "clarification"}

\* every filter field of the structure e is None
AllFiltersAbsent(e) ==
  /\ \A f \in FilterFields \cap StrFields : e[f] = Null
  /\ e["location"] = NullLoc
  /\ e["enrollment_min"] = NullNum
  /\ e["enrollment_max"] = NullNum

\* e is a well-typed ExtractedEntities value
IsEntities(e) ==
  /\ \A f \in StrFields : e[f] \notin NonStrings \cup {Absent}
  /\ e["confidence"] \in 0..10
  /\ e["location"].t \in {"null", "LocationFilter"}
  /\ \A k \in SubFields : e["location"][k] \notin NonStrings
  /\ \A f \in {"enrollment_min", "enrollment_max"} :
       e[f] = NullNum \/ (e[f].t = "num" /\ e[f].v >= 0)

\* C1: whatever the query and whatever the extraction step does (any reply
\* text, an API error, any other exception), extract_entities returns an
\* ExtractedEntities value and no exception leaves it.
C1_NeverRaises ==
  Returned => /\ raised = "none"
              /\ pc # "failed"
              /\ Len(result) = 1
              /\ IsEntities(result[1])

\* an exception raised while normalising a parsed reply was absorbed
C1_Witness ==
  /\ Returned /\ path = "unexpected" /\ reply.kind = "text"
  /\ parsed # <<>> /\ raised = "none" /\ Len(result) = 1

\* C2 (as claimed): whenever no object can be recovered from the reply text
\* (prose, or valid JSON that is no object), the structure has confidence
\* 0.3, the rephrase clarification and every filter field absent.
C2_NoObjectIsParseFailure ==
  (Returned /\ reply.kind = "text"
     /\ ParseJsonResponse(reply.text).kind # "object")
  => /\ Len(result) = 1
     /\ result[1]["confidence"] = 3
     /\ result[1]["clarification"] = ParseFailMsg
     /\ AllFiltersAbsent(result[1])

\* C3: when the extraction call fails with an API error the structure has
\* confidence 0.0, the clarification that the service is unavailable, every
\* filter field absent, and nothing is raised.
C3_ApiErrorFallback ==
  (Returned /\ reply.kind = "api_error")
  => /\ raised = "none"
     /\ Len(result) = 1
     /\ result[1]["confidence"] = 0
     /\ result[1]["clarification"] = UnavailableMsg
     /\ AllFiltersAbsent(result[1])

C3_Witness ==
  /\ Returned /\ reply.kind = "api_error" /\ calls = 1
  /\ Len(result) = 1 /\ result[1]["clarification"] = UnavailableMsg

\* C4: for an empty or whitespace-only query the structure has confidence
\* 0.1 and a clarification, and at no point of the request is the extraction
\* capability called.
C4_BlankQueryNoCall ==
  (route = "search" /\ IsBlank(query))
  => /\ calls = 0
     /\ pc # "awaiting"
     /\ reply = NoReply
     /\ Len(result) = 1
     /\ result[1]["confidence"] = 1
     /\ result[1]["clarification"] \notin {Null, ""}

C4_Witness ==
  /\ route = "search" /\ query = <<" ">> /\ pc = "compiled" /\ calls = 0
  /\ path = "empty"

\* no field of e yields a clause: every text field empty, no location
\* sub-field set, no enrollment bound
NothingSet(e) ==
  /\ \A f \in FilterFields \cap StrFields : e[f] \in {Null, ""}
  /\ \A k \in SubFields : e["location"][k] \in {Null, Absent, ""}
  /\ e["enrollment_min"] = NullNum
  /\ e["enrollment_max"] = NullNum

\* C5: build_query returns the match-everything query exactly when no clause
\* was produced (in particular when every filter field is absent); otherwise
\* a bool query whose keys must and filter appear only with non-empty lists.
C5_MatchAllCollapse ==
  es_query # <<>>
  => LET e == result[1]
         q == es_query[1]
     IN /\ q.kind \in {"match_all", "bool"}
        /\ q.kind = "match_all" <=> NothingSet(e)
        /\ AllFiltersAbsent(e) => q.kind = "match_all"
        /\ q.kind = "match_all" => q.keys = {}
        /\ q.kind = "bool"
             => /\ q.keys # {}
                /\ q.keys \subseteq {"must", "filter"}
                /\ "must" \in q.keys <=> q.must # <<>>
                /\ "filter" \in q.keys <=> q.filter # <<>>

\* a location with every sub-field empty, and nothing else, compiled
C5_Witness ==
  /\ es_query # <<>> /\ es_query[1].kind = "match_all"
  /\ result[1]["location"].t = "LocationFilter"

\* valid[f]: the valid set of enum field f
ValidSet(f) ==
  CASE f = "phase" -> VALID_PHASES
    [] f = "status" -> VALID_STATUSES
    [] f = "age_group" -> VALID_AGE_GROUPS

EnumFields == {"phase", "status", "age_group"}

\* C6 (as claimed): normalisation keeps every valid phase, status and age
\* group, and turns every other value the reply carries there into absent.
C6_InvalidEnumDiscarded ==
  normalized # <<>>
  => \A f \in EnumFields :
       IF parsed[1][f] \in ValidSet(f)
       THEN normalized[1][f] = parsed[1][f]
       ELSE normalized[1][f] \in {Null, Absent}

\* C7: confidence is clamped into [0, 1]: above 1 gives 1.0, below 0 gives
\* 0.0, a value in range is kept, a reply without confidence gets 0.8, and
\* every structure extract_entities returns has confidence in [0, 1].
C7_ConfidenceClamped ==
  /\ (Returned /\ result # <<>>) => result[1]["confidence"] \in 0..10
  /\ normalized # <<>>
       => LET c == parsed[1]["confidence"]
              n == normalized[1]["confidence"]
          IN /\ c.t = "absent" => n = AbsentNum
             /\ c.t # "absent"
                  => /\ n.t = "num"
                     /\ c.v > 10 => n.v = 10
                     /\ c.v < 0 => n.v = 0
                     /\ c.v \in 0..10 => n.v = c.v
  /\ path = "ok"
       => LET c == parsed[1]["confidence"]
          IN /\ c.t = "absent" => result[1]["confidence"] = 8
             /\ c.t # "absent" => result[1]["confidence"] = normalized[1]["confidence"].v

C7_Witness ==
  /\ path = "ok" /\ parsed[1]["confidence"] = Num("num", 15)
  /\ result[1]["confidence"] = 10

\* C8: normalisation is idempotent: applied to its own result it raises
\* nothing and returns that result unchanged.
C8_NormalizeIdempotent ==
  normalized # <<>>
  => /\ NormalizeExc(normalized[1]) = "none"
     /\ ValidateAndNormalize(normalized[1]) = normalized[1]

\* a first application that changed the location and the confidence
C8_Witness ==
  /\ normalized # <<>>
  /\ normalized[1]["location"].t = "LocationFilter"
  /\ parsed[1]["confidence"].t = "numstr"
  /\ normalized[1] # parsed[1]

\* C9 (as claimed): a location object whose city, state and country are all
\* null or missing becomes absent; otherwise the location filter carries
\* exactly the non-null sub-fields of the reply.
C9_LocationCollapse ==
  (normalized # <<>> /\ parsed[1]["location"].t = "dict")
  => LET l == parsed[1]["location"]
         n == normalized[1]["location"]
     IN IF \A k \in SubFields : l[k] \in {Null, Absent}
        THEN n = NullLoc
        ELSE /\ n.t = "LocationFilter"
             /\ \A k \in SubFields :
                  n[k] = IF l[k] \in {Null, Absent} THEN Null ELSE l[k]

\* C10 (as claimed): the location of every returned structure is absent or
\* has a non-empty city, state or country.
C10_LocationNeverEmpty ==
  (Returned /\ result # <<>>)
  => \/ result[1]["location"] = NullLoc
     \/ \E k \in SubFields : result[1]["location"][k] \notin {Null, Absent, ""}

EnrollFields == {"enrollment_min", "enrollment_max"}

\* C11 (as claimed): a bound given as a numeric string is coerced to that
\* integer; a bound that cannot be coerced becomes absent on its own: the
\* other fields come out as they would without it and the interpretation
\* does not fall back.
C11_BadBoundDiscardedAlone ==
  (Returned /\ reply.kind = "text" /\ parsed # <<>>)
  => \A f \in EnrollFields :
       LET b == parsed[1][f]
           rest == [parsed[1] EXCEPT ![f] = AbsentNum]
       IN /\ (b.t = "numstr" /\ normalized # <<>>)
               => normalized[1][f] = Num("num", b.v)
          /\ (b.t \in {"badstr", "list", "inf"}
                /\ ReplyExc(reply.text, rest) = "none")
               => /\ path = "ok"
                  /\ result[1][f] = NullNum
                  /\ \A g \in Fields \ {f} :
                       result[1][g]
                         = ExtractedEntities(ValidateAndNormalize(rest))[g]

Compiled == pc = "compiled" /\ es_query # <<>> /\ result # <<>>

\* the item of the entity structure a clause stands for
ClauseItem(c) ==
  CASE c.clause = "multi_match" /\ c.type = "best_fields" -> "condition"
    [] c.clause = "multi_match" /\ c.type = "phrase_prefix" -> "keyword"
    [] c.clause = "term" /\ c.field = "phase" -> "phase"
    [] c.clause = "term" /\ c.field = "overall_status" -> "status"
    [] c.clause = "nested" /\ c.path = "facilities" -> "location"
    [] c.clause = "nested" /\ c.path = "sponsors" -> "sponsor"
    [] c.clause = "nested" /\ c.path = "age" -> "age_group"
    [] c.clause = "range" -> "enrollment"
    [] OTHER -> "unknown"

ClauseItems(cs) == [i \in 1..Len(cs) |-> ClauseItem(cs[i])]

PresentSubFields(loc) ==
  IF loc.t # "LocationFilter" THEN {}
  ELSE {k \in SubFields : loc[k] \notin {Null, ""}}

\* an item of the structure is set: text items are non-empty, the location
\* has a sub-field, the enrollment range has a bound
ItemSet(e, item) ==
  CASE item = "location" -> PresentSubFields(e["location"]) # {}
    [] item = "enrollment" ->
         e["enrollment_min"] # NullNum \/ e["enrollment_max"] # NullNum
    [] OTHER -> e[item] \notin {Null, ""}

SetItems(e, order) ==
  LET IsSet(item) == ItemSet(e, item) IN SelectSeq(order, IsSet)

\* C12: 'must' holds exactly one clause per set field among condition and
\* keyword, condition first; 'filter' holds exactly one clause per set item
\* among phase, status, location, sponsor, age_group, enrollment range, in
\* that order; phase and status are term clauses and never appear in 'must'.
C12_ClauseListsAndOrder ==
  Compiled
  => LET e == result[1]
         q == es_query[1]
     IN /\ ClauseItems(q.must) = SetItems(e, <<"condition", "keyword">>)
        /\ ClauseItems(q.filter)
             = SetItems(e, <<"phase", "status", "location", "sponsor",
                             "age_group", "enrollment">>)
        /\ \A i \in 1..Len(q.must) : q.must[i].clause = "multi_match"
        /\ \A i \in 1..Len(q.filter) :
             ClauseItem(q.filter[i]) \in {"phase", "status"}
               => /\ q.filter[i].clause = "term"
                  /\ q.filter[i].value
                       = e[ClauseItem(q.filter[i])]

C12_Witness ==
  /\ Compiled
  /\ Len(es_query[1].must) = 2
  /\ Len(es_query[1].filter) = 6

RangeClauses(q) == LET IsRange(c) == c.clause = "range"
                   IN SelectSeq(q.filter, IsRange)

\* C13: with at least one enrollment bound present (0 counts) the query has
\* exactly one range clause on enrollment, with 'gte' iff enrollment_min is
\* present and equal to it and 'lte' iff enrollment_max is present and equal
\* to it; with none it has no range clause; min > max is emitted as given.
C13_RangeClause ==
  Compiled
  => LET e == result[1]
         rs == RangeClauses(es_query[1])
     IN IF e["enrollment_min"] # NullNum \/ e["enrollment_max"] # NullNum
        THEN /\ Len(rs) = 1
             /\ rs[1].field = "enrollment"
             /\ rs[1].gte = e["enrollment_min"]
             /\ rs[1].lte = e["enrollment_max"]
        ELSE rs = <<>>

C13_Witness ==
  /\ Compiled
  /\ result[1]["enrollment_min"] = Num("num", 50)
  /\ result[1]["enrollment_max"] = Num("num", 10)
  /\ Len(RangeClauses(es_query[1])) = 1
  /\ RangeClauses(es_query[1])[1].gte.v = 50
  /\ RangeClauses(es_query[1])[1].lte.v = 10

FacilityClauses(q) ==
  LET IsFac(c) == c.clause = "nested" /\ c.path = "facilities"
  IN SelectSeq(q.filter, IsFac)

SubFieldOrder == <<"country", "state", "city">>

\* C14: a location with present (non-empty) sub-fields compiles to one nested
\* clause on path facilities whose inner bool must has exactly one term per
\* present sub-field, in the order country, state, city; a location with no
\* present sub-field adds no clause, and a structure holding only such a
\* location compiles to the match-everything query.
C14_LocationClause ==
  Compiled
  => LET e == result[1]
         q == es_query[1]
         fs == FacilityClauses(q)
         present == PresentSubFields(e["location"])
         IsPresent(k) == k \in present
         want == SelectSeq(SubFieldOrder, IsPresent)
     IN /\ present # {}
             => /\ Len(fs) = 1
                /\ fs[1].type = "bool"
                /\ Len(fs[1].inner) = Len(want)
                /\ \A i \in 1..Len(want) :
                     fs[1].inner[i]
                       = <<"facilities." \o want[i], e["location"][want[i]]>>
        /\ present = {} => fs = <<>>
        /\ (present = {} /\ e["location"].t = "LocationFilter"
              /\ \A f \in FilterFields \cap StrFields : e[f] = Null
              /\ e["enrollment_min"] = NullNum
              /\ e["enrollment_max"] = NullNum)
             => q.kind = "match_all"

C14_Witness ==
  /\ Compiled
  /\ result[1]["location"].t = "LocationFilter"
  /\ result[1]["location"].country = ""
  /\ result[1]["location"].city = "Boston"
  /\ Len(FacilityClauses(es_query[1])) = 1
  /\ Len(FacilityClauses(es_query[1])[1].inner) = 1

C14_WitnessEmpty ==
  /\ Compiled
  /\ result[1]["location"].t = "LocationFilter"
  /\ PresentSubFields(result[1]["location"]) = {}
  /\ es_query[1].kind = "match_all"

SearchReturned == s_pc = "returned" /\ response # <<>> /\ s_return # <<>>

Names(entries) == [i \in 1..Len(entries) |-> entries[i].name]

\* C15: the mapped record's facilities are exactly the first min(3, n)
\* facility entries of the hit in the engine's order; sponsors and age
\* categories are mapped in full.
C15_FacilitiesFirstThree ==
  SearchReturned
  => \A i \in 1..Len(response[1].hits) :
       LET hit == response[1].hits[i]
           rec == s_return[1].results[i]
           raw == IF hit.facilities = <<>> THEN <<>> ELSE hit.facilities[1]
           k == IF Len(raw) < 3 THEN Len(raw) ELSE 3
       IN /\ Names(rec.facilities) = Names(SubSeq(raw, 1, k))
          /\ hit.sponsors # <<>>
               => Names(rec.sponsors) = Names(hit.sponsors[1])
          /\ hit.age # <<>>
               => /\ Len(rec.age) = Len(hit.age[1])
                  /\ \A j \in 1..Len(rec.age) :
                       rec.age[j].age_category = hit.age[1][j].name

C15_Witness ==
  /\ SearchReturned
  /\ \E i \in 1..Len(response[1].hits) :
       /\ response[1].hits[i].facilities # <<>>
       /\ Len(response[1].hits[i].facilities[1]) = 4
       /\ Names(s_return[1].results[i].facilities) = <<"F4", "F2", "F5">>
       /\ Len(s_return[1].results[i].sponsors) = 4

LacksRequired(hit) == hit.nct_id = Absent \/ hit.brief_title = Absent

\* C16: when a hit of the page lacks nct_id or brief_title, search raises
\* instead of defaulting the field and returns nothing, not even the
\* records of the well-formed hits of the page.
C16_MissingRequiredRaises ==
  (response # <<>>
     /\ \E i \in 1..Len(response[1].hits) : LacksRequired(response[1].hits[i]))
  => /\ s_pc = "raised"
     /\ s_exc # "none"
     /\ s_return = <<>>

C16_Witness ==
  /\ s_pc = "raised"
  /\ s_exc = "KeyError"
  /\ response # <<>>
  /\ Len(response[1].hits) = 2
  /\ ~LacksRequired(response[1].hits[1])
  /\ LacksRequired(response[1].hits[2])
  /\ s_return = <<>>

WellFormedEntries(hit) ==
  /\ hit.sponsors # <<>>
       => \A j \in 1..Len(hit.sponsors[1]) : hit.sponsors[1][j].name # Absent
  /\ hit.age # <<>>
       => \A j \in 1..Len(hit.age[1]) : hit.age[1][j].name # Absent

\* C17: for a hit with the required fields, every missing optional scalar is
\* None in the record and every missing collection is an empty list; a page
\* whose hits have the required fields and well-formed entries never raises,
\* whatever optional fields are missing.
C17_MissingOptionalDefaults ==
  /\ SearchReturned
       => \A i \in 1..Len(response[1].hits) :
            LET hit == response[1].hits[i]
                rec == s_return[1].results[i]
            IN /\ \A f \in OptScalars :
                    /\ hit.opt[f] = Absent => rec.opt[f] = Null
                    /\ hit.opt[f] # Absent => rec.opt[f] = hit.opt[f]
               /\ \A c \in Collections : hit[c] = <<>> => rec[c] = <<>>
  /\ (response # <<>>
        /\ \A i \in 1..Len(response[1].hits) :
             /\ ~LacksRequired(response[1].hits[i])
             /\ WellFormedEntries(response[1].hits[i]))
       => s_pc = "returned" /\ s_exc = "none"

C17_Witness ==
  /\ SearchReturned
  /\ \E i \in 1..Len(response[1].hits) :
       /\ \A f \in OptScalars : response[1].hits[i].opt[f] = Absent
       /\ \A c \in Collections : response[1].hits[i][c] = <<>>
       /\ \A f \in OptScalars : s_return[1].results[i].opt[f] = Null
       /\ \A c \in Collections : s_return[1].results[i][c] = <<>>

\* C18: search returns one record per hit, in the engine's order, and the
\* returned total is the engine-reported total whatever the number of
\* records on the page.
C18_TotalIsEngineTotal ==
  SearchReturned
  => /\ Len(s_return[1].results) = Len(response[1].hits)
     /\ \A i \in 1..Len(response[1].hits) :
          /\ s_return[1].results[i].nct_id = response[1].hits[i].nct_id
          /\ s_return[1].results[i].brief_title
               = response[1].hits[i].brief_title
     /\ s_return[1].total = response[1].total

C18_Witness ==
  /\ SearchReturned
  /\ response[1].hits = <<>>
  /\ s_return[1].results = <<>>
  /\ response[1].total > 0
  /\ s_return[1].total = response[1].total

C18_WitnessOrder ==
  /\ SearchReturned
  /\ Len(s_return[1].results) = 2
  /\ s_return[1].results[1].nct_id = "NCT3"
  /\ s_return[1].results[2].nct_id = "NCT1"
  /\ s_return[1].total = 3

\* the length of a text once leading and trailing blanks are removed
TrimmedLen(t) ==
  LET idx == {i \in 1..Len(t) : t[i] # " "}
  IN IF idx = {} THEN 0
     ELSE (CHOOSE i \in idx : \A j \in idx : j <= i)
            - (CHOOSE i \in idx : \A j \in idx : i <= j) + 1

ShortPrefix(p) == p.none \/ TrimmedLen(p.text) < 2

\* C19: for a prefix that is absent, empty, or shorter than 2 characters
\* after trimming, get_suggestions returns the empty sequence and makes no
\* engine call.
C19_ShortPrefixNoCall ==
  (g_args # <<>> /\ ShortPrefix(g_args[1].prefix))
  => /\ g_pc = "returned"
     /\ g_return = << <<>> >>
     /\ g_calls = <<>>

C19_Witness ==
  /\ g_args # <<>>
  /\ g_args[1].prefix = TextPrefix(<<" ", "a", " ">>)
  /\ g_pc = "returned"
  /\ g_return = << <<>> >>
  /\ g_calls = <<>>

\* the primary answer puts no title in the suggestions: every hit of the
\* page has an empty or missing title
PrimaryEmpty ==
  /\ g_matches # <<>>
  /\ \A i \in 1..Len(g_matches[1]) :
       i <= g_args[1].limit => g_matches[1][i] \in {"", Absent}

PrimaryHasTitle ==
  /\ g_matches # <<>>
  /\ \E i \in 1..Len(g_matches[1]) :
       i <= g_args[1].limit /\ g_matches[1][i] \notin {"", Absent, Null}

\* C20: the primary (bool_prefix) query is always the first engine call; the
\* fallback (phrase_prefix) query is issued exactly once when the primary
\* strategy yields zero suggestions and never when it yields at least one;
\* a request makes at most two engine calls.
C20_FallbackOnlyAfterEmptyPrimary ==
  /\ Len(g_calls) <= 2
  /\ g_calls # <<>> => g_calls[1].type = "bool_prefix"
  /\ Len(g_calls) = 2
       => /\ g_calls[2].type = "phrase_prefix"
          /\ g_calls[2].query = g_calls[1].query
          /\ PrimaryEmpty
  /\ PrimaryHasTitle => Len(g_calls) = 1
  /\ (PrimaryEmpty /\ g_pc \in {"fallback", "returned", "raised"})
       => Len(g_calls) = 2

C20_Witness ==
  /\ g_pc = "returned"
  /\ Len(g_calls) = 2
  /\ Len(g_matches) = 2
  /\ PrimaryEmpty
  /\ g_matches[1] # <<>>
  /\ g_return = << <<"Cancer Study">> >>

C20_WitnessPrimaryOnly ==
  /\ g_pc = "returned"
  /\ Len(g_calls) = 1
  /\ PrimaryHasTitle
  /\ g_return # << <<>> >>

SuggestReturned == g_pc = "returned" /\ g_calls # <<>> /\ g_return # <<>>

\* the hits the returned suggestions were taken from: the page of the last
\* engine answer (a fallback is only made when the primary gave nothing)
UsedHits ==
  LET m == g_matches[Len(g_matches)]
      n == IF Len(m) < g_args[1].limit THEN Len(m) ELSE g_args[1].limit
  IN [i \in 1..n |-> IF m[i] = Absent THEN "" ELSE m[i]]

\* a title without its capitals
Canon(t) ==
  CASE t = "Test Trial" -> "test trial"
    [] t = "Cancer Study" -> "cancer study"
    [] OTHER -> t

\* the position in hits of the first title with the lower-cased form of t
FirstOfKey(hits, t) ==
  CHOOSE i \in 1..Len(hits) :
    /\ Canon(hits[i]) = Canon(t)
    /\ \A j \in 1..(i - 1) : Canon(hits[j]) # Canon(t)

\* C21: the returned sequence never holds two titles that are equal after
\* lower-casing; of several hits with the same lower-cased title the first
\* in engine order is the one kept; the kept titles are in the engine's
\* relative order.
C21_DedupeFirstWins ==
  SuggestReturned
  => LET ret == g_return[1]
         hits == UsedHits
     IN /\ \A k, l \in 1..Len(ret) : k # l => Canon(ret[k]) # Canon(ret[l])
        /\ \A k \in 1..Len(ret) :
             /\ ret[k] # ""
             /\ \E i \in 1..Len(hits) : Canon(hits[i]) = Canon(ret[k])
             /\ ret[k] = hits[FirstOfKey(hits, ret[k])]
        /\ \A k, l \in 1..Len(ret) :
             k < l => FirstOfKey(hits, ret[k]) < FirstOfKey(hits, ret[l])
        /\ \A i \in 1..Len(hits) :
             hits[i] # "" => \E k \in 1..Len(ret) : Canon(ret[k]) = Canon(hits[i])

C21_Witness ==
  /\ SuggestReturned
  /\ Len(g_matches) = 1
  /\ g_args[1].limit = 2
  /\ Len(g_matches[1]) >= 2
  /\ g_matches[1][1] = "test trial"
  /\ g_matches[1][2] = "Test Trial"
  /\ g_return = << <<"test trial">> >>

\* the case-insensitively distinct titles among the matches
DistinctTitles(m) ==
  {Canon(m[i]) : i \in {j \in 1..Len(m) : m[j] \notin {"", Absent, Null}}}

\* C22 (as claimed): the result has at most limit entries, and whenever the
\* engine's relevance-ordered matches for the prefix hold at least limit
\* case-insensitively distinct titles the result has exactly limit entries,
\* even if some of the first limit matches duplicate one another.
C22_TruncateAfterDedupe ==
  (SuggestReturned /\ Len(g_matches) = 1)
  => /\ Len(g_return[1]) <= g_args[1].limit
     /\ Cardinality(DistinctTitles(g_matches[1])) >= g_args[1].limit
          => Len(g_return[1]) = g_args[1].limit

OnRoute(name) == r_req # <<>> /\ r_req[1].route = name

RouteDone(name) == OnRoute(name) /\ r_pc = "done"

\* C23: an engine fault is propagated and never retried or masked: when the
\* engine call of search fails, search raises after exactly one engine call
\* and the search route answers with status 500; when the primary engine
\* call of get_suggestions fails, get_suggestions raises without issuing
\* the fallback query (and the suggest route answers with status 500).
C23_EngineFaultPropagated ==
  /\ es_calls <= 1
  /\ s_exc = "ConnectionError"
       => /\ s_pc = "raised"
          /\ s_return = <<>>
          /\ es_calls = 1
          /\ RouteDone("search") => r_status = 500 /\ r_body = <<>>
  /\ (g_exc = "ConnectionError" /\ g_matches = <<>>)
       => /\ g_pc = "raised"
          /\ g_return = <<>>
          /\ Len(g_calls) = 1
          /\ g_calls[1].type = "bool_prefix"
          /\ RouteDone("suggest") => r_status = 500 /\ r_body = <<>>

C23_Witness ==
  /\ RouteDone("search")
  /\ s_exc = "ConnectionError"
  /\ es_calls = 1
  /\ r_status = 500

C23_WitnessSuggest ==
  /\ RouteDone("suggest")
  /\ g_exc = "ConnectionError"
  /\ g_matches = <<>>
  /\ Len(g_calls) = 1
  /\ r_status = 500

Degraded == path \in {"empty", "parse_error", "api_error", "unexpected"}

\* C24: for a degraded interpretation (empty query, parse failure,
\* capability failure, unexpected extraction fault) the search route still
\* compiles and executes a search: every filter field of the structure is
\* absent, the compiled query is match-everything, and when the engine
\* answers the request ends with status 200 and the clarification of the
\* structure, which is not null.
C24_DegradedStillSearches ==
  (OnRoute("search") /\ Degraded)
  => /\ Len(result) = 1
     /\ AllFiltersAbsent(result[1])
     /\ result[1]["clarification"] # Null
     /\ body # <<>> => body[1].query.kind = "match_all"
     /\ r_pc = "done"
          => /\ es_calls = 1
             /\ s_pc = "returned"
                  => /\ r_status = 200
                     /\ r_body[1].clarification = result[1]["clarification"]
                     /\ r_body[1].query_interpretation = result[1]
             /\ r_status # 200 => s_exc # "none"

C24_Witness ==
  /\ RouteDone("search")
  /\ path = "parse_error"
  /\ es_calls = 1
  /\ body[1].query.kind = "match_all"
  /\ r_status = 200
  /\ r_body[1].clarification = ParseFailMsg
  /\ Len(r_body[1].results) = 2

\* C28: a search request with page < 1 or page_size outside 1..100, and a
\* suggest request whose q is missing or shorter than 2 characters, is
\* rejected with status 422 before any extraction call or engine call.
C28_InvalidParamsRejected ==
  /\ (OnRoute("search")
        /\ (r_req[1].page < 1 \/ r_req[1].page_size < 1
              \/ r_req[1].page_size > 100))
       => r_status = 422
  /\ (OnRoute("suggest") /\ (r_req[1].missing \/ Len(r_req[1].q) < 2))
       => r_status = 422
  /\ r_status = 422
       => /\ r_pc = "done"
          /\ calls = 0
          /\ es_calls = 0
          /\ g_calls = <<>>
          /\ pc = "idle" /\ s_pc = "idle" /\ g_pc = "idle"
          /\ r_body = <<>>

C28_Witness ==
  /\ RouteDone("search")
  /\ r_req[1].page = 1
  /\ r_req[1].page_size = 101
  /\ r_status = 422
  /\ calls = 0
  /\ es_calls = 0

C28_WitnessSuggest ==
  /\ RouteDone("suggest")
  /\ r_req[1].q = <<"a">>
  /\ ~r_req[1].missing
  /\ r_status = 422
  /\ g_calls = <<>>

\* C29: for page >= 1 and page_size >= 1 search asks the engine for offset
\* (page - 1) * page_size and size page_size in exactly one engine call, and
\* the response of the search route echoes the caller's page and page_size.
C29_PaginationEchoed ==
  OnRoute("search")
  => /\ body # <<>>
          => /\ r_req[1].page >= 1 /\ r_req[1].page_size >= 1
             /\ body[1].from = (r_req[1].page - 1) * r_req[1].page_size
             /\ body[1].size = r_req[1].page_size
             /\ es_calls = 1
     /\ (r_pc = "done" /\ r_status = 200)
          => /\ es_calls = 1
             /\ r_body[1].page = r_req[1].page
             /\ r_body[1].page_size = r_req[1].page_size

C29_Witness ==
  /\ RouteDone("search")
  /\ r_status = 200
  /\ r_req[1].page = 2
  /\ r_req[1].page_size = 2
  /\ body[1].from = 2
  /\ body[1].size = 2
  /\ r_body[1].page = 2
  /\ r_body[1].page_size = 2
  /\ es_calls = 1

\* C25 (as claimed): the three shapes are tried in order (whole reply, fenced
\* block, first balanced brace span) and parsing fails only if none parses:
\* when the whole reply is not valid and the fenced-block attempt yields no
\* parsable data, the brace span is still tried and its object returned.
C25_BraceSpanStillTried ==
  (Returned /\ reply.kind = "text")
  => LET t == Strip(reply.text)
         whole == JsonLoads(t)
         fenced == IF FenceGroup(t) = <<>> THEN "error"
                   ELSE JsonLoads(FenceGroup(t))
         braced == IF BraceSpan(t) = <<>> THEN "error"
                   ELSE JsonLoads(BraceSpan(t))
     IN /\ whole = "object" => parsed # <<>>
        /\ (whole = "error" /\ fenced = "object") => parsed # <<>>
        /\ (whole = "error" /\ fenced = "error" /\ braced = "object")
             => parsed # <<>> /\ path # "parse_error"
        /\ path = "parse_error"
             => whole = "error" /\ fenced = "error" /\ braced = "error"

\* C26: extract_entities calls the extraction capability at most once per
\* request: after a failed call or an unparsable reply it returns the
\* degraded structure directly, without a second call.
C26_AtMostOneCall ==
  /\ calls <= 1
  /\ (Returned /\ reply.kind # "none")
       => /\ calls = 1
          /\ path # "ok"
               => /\ Len(result) = 1
                  /\ Degraded
                  /\ AllFiltersAbsent(result[1])
  /\ (Returned /\ path = "empty") => calls = 0

C26_Witness ==
  /\ Returned
  /\ reply.kind = "api_error"
  /\ calls = 1
  /\ path = "api_error"
  /\ Len(result) = 1

C30_NegativeBoundFallback ==
  Returned
  => /\ \A i \in 1..Len(result) : \A f \in EnrollFields :
          \/ result[i][f] = NullNum
          \/ result[i][f].t = "num" /\ result[i][f].v >= 0
     /\ (reply.kind = "text" /\ parsed # <<>>
           /\ \E f \in EnrollFields :
                parsed[1][f].t = "num" /\ parsed[1][f].v < 0)
          => /\ path = "unexpected"
             /\ Len(result) = 1
             /\ result[1]["confidence"] = 0
             /\ result[1]["clarification"] = UnexpectedMsg
             /\ AllFiltersAbsent(result[1])

C30_Witness ==
  /\ Returned
  /\ reply.kind = "text"
  /\ parsed # <<>>
  /\ parsed[1]["condition"] = "Asthma"
  /\ parsed[1]["enrollment_min"] = Num("num", -5)
  /\ path = "unexpected"
  /\ result[1]["condition"] = Null
  /\ result[1]["confidence"] = 0

====
